---------------------------- MODULE Spec2Model ----------------------------
(***************************************************************************)
(* Model of the wordle-solver engine (src/rust/src/lib.rs): the feedback   *)
(* evaluator evaluate_guess, the outcome queries of GuessOutcome, the      *)
(* constraint tracker GameState (update, _update_state,                    *)
(* _update_potential_solutions, _word_fits) and the guess selector         *)
(* (calculate_best_guess, calculate_information_gain).                     *)
(*                                                                         *)
(* A letter is a one-character string, a word a sequence of letters, an    *)
(* Option<u8> the empty sequence (None) or a one-element sequence          *)
(* (Some(v)).  A GuessOutcome is a sequence of <<letter, LetterOutcome>>   *)
(* pairs, as the Vec<(char, LetterOutcome)> of the source.                 *)
(***************************************************************************)
EXTENDS Integers, Sequences, FiniteSets, TLC

\* ------------------------------------------------------------------------
\* Program constants
\* ------------------------------------------------------------------------
WORD_LENGTH == 5

NUM_GUESSES == 6

LETTERS ==
  <<"A", "B", "C", "D", "E", "F", "G", "H", "I", "J", "K", "L", "M", "N", "O",
    "P", "Q", "R", "S", "T", "U", "V", "W", "X", "Y", "Z">>

LetterSet == {LETTERS[i] : i \in 1..Len(LETTERS)}

BEST_FIRST_GUESS == <<"R", "O", "A", "T", "E">>

Correct == "Correct"
Present == "Present"
Absent == "Absent"

LetterOutcome == {Correct, Present, Absent}

\* ------------------------------------------------------------------------
\* Bounds of the model
\* ------------------------------------------------------------------------
\* The evaluator is exercised on every pair of words over the first
\* NumEvalLetters letters of EvalAlphabet (and on the words of the sample
\* game below).
NumEvalLetters == 2

\* Number of update calls a behaviour of the game specification makes.
MaxUpdates == 2

\* ------------------------------------------------------------------------
\* Words used by the scenarios
\* ------------------------------------------------------------------------
ROATE == <<"R", "O", "A", "T", "E">>
ABATE == <<"A", "B", "A", "T", "E">>
BEATS == <<"B", "E", "A", "T", "S">>

EvalAlphabet == <<"A", "B", "E", "T", "S">>

EvalLetters == {EvalAlphabet[i] : i \in 1..NumEvalLetters}

EvalWords == [1..WORD_LENGTH -> EvalLetters] \cup {ROATE, ABATE, BEATS}

\* ------------------------------------------------------------------------
\* Small helpers
\* ------------------------------------------------------------------------
Min2(a, b) == IF a <= b THEN a ELSE b

Max2(a, b) == IF a >= b THEN a ELSE b

None == <<>>

Some(v) == <<v>>

\* Number of occurrences of letter l in word w.
CountLetter(w, l) == Cardinality({i \in 1..Len(w) : w[i] = l})

\* ------------------------------------------------------------------------
\* evaluate_guess (lib.rs 277-313)
\* ------------------------------------------------------------------------
\* Variant of the first loop that marks nothing: every exact match is left
\* to the second loop.
EvalPass1NoExactMatches(guess, solution) ==
  [results   |-> [i \in 1..NUM_GUESSES |-> Absent],
   accounted |-> [i \in 1..WORD_LENGTH |-> FALSE]]

\* First loop: exact matches.  `results` has NUM_GUESSES entries, `accounted`
\* WORD_LENGTH entries; the loop runs over guess.chars().zip(solution.chars()).
\* accounted[i] is false when position i is visited, so the second conjunct
\* of the source's condition never decides.
EvalPass1(guess, solution) ==
  LET n == Min2(Len(guess), Len(solution))
      hit(i) == i <= n /\ guess[i] = solution[i]
  IN [results   |-> [i \in 1..NUM_GUESSES |-> IF hit(i) THEN Correct ELSE Absent],
      accounted |-> [i \in 1..WORD_LENGTH |-> hit(i)]]

\* Variant of the inner loop that never skips an accounted position: a
\* solution letter can then be matched more than once.
RECURSIVE FirstMatching(_, _, _, _)
FirstMatching(accounted, solution, guess_letter, j) ==
  IF j > Min2(Len(accounted), Len(solution)) THEN 0
  ELSE IF guess_letter = solution[j] THEN j
  ELSE FirstMatching(accounted, solution, guess_letter, j + 1)

\* Inner loop of the second pass: index of the first solution position that
\* is not accounted and holds guess_letter, 0 when there is none.  The loop
\* runs over accounted.iter_mut().zip(solution.chars()).
RECURSIVE FirstUnaccounted(_, _, _, _)
FirstUnaccounted(accounted, solution, guess_letter, j) ==
  IF j > Min2(Len(accounted), Len(solution)) THEN 0
  ELSE IF accounted[j] THEN FirstUnaccounted(accounted, solution, guess_letter, j + 1)
  ELSE IF guess_letter = solution[j] THEN j
  ELSE FirstUnaccounted(accounted, solution, guess_letter, j + 1)

\* Second loop, from guess position i on: left to right over
\* results.iter_mut().zip(guess.chars()); a Correct entry is skipped, any
\* other entry becomes Present when an unaccounted solution letter matches,
\* and that solution position is then accounted.
RECURSIVE EvalPass2(_, _, _, _, _)
EvalPass2(guess, solution, results, accounted, i) ==
  IF i > Min2(Len(results), Len(guess)) THEN results
  ELSE IF results[i] = Correct
    THEN EvalPass2(guess, solution, results, accounted, i + 1)
  ELSE LET j == FirstUnaccounted(accounted, solution, guess[i], 1)
       IN IF j = 0
            THEN EvalPass2(guess, solution, results, accounted, i + 1)
            ELSE EvalPass2(guess, solution,
                           [results EXCEPT ![i] = Present],
                           [accounted EXCEPT ![j] = TRUE], i + 1)

\* The returned GuessOutcome: guess.chars().zip(results), which stops at the
\* shorter of the two.
evaluate_guess(guess, solution) ==
  LET p1 == EvalPass1(guess, solution)
      results == EvalPass2(guess, solution, p1.results, p1.accounted, 1)
  IN [i \in 1..Min2(Len(guess), Len(results)) |-> <<guess[i], results[i]>>]

\* ------------------------------------------------------------------------
\* GuessOutcome (lib.rs 250-275)
\* ------------------------------------------------------------------------
\* GuessOutcome::letter_outcomes: the classifications without the letters.
letter_outcomes(outcome) == [i \in 1..Len(outcome) |-> outcome[i][2]]

\* Variant of is_win with `any` in place of `all`.
is_win_any(outcome) == \E i \in 1..Len(outcome) : outcome[i][2] = Correct

\* GuessOutcome::is_win: every classification is Correct.
is_win(outcome) == \A i \in 1..Len(outcome) : outcome[i][2] = Correct

\* ------------------------------------------------------------------------
\* FrequencyPredicate (lib.rs 18-63)
\* ------------------------------------------------------------------------
\* FrequencyPredicate::new
NewFrequencyPredicate == [min_occurrences |-> None, max_occurrences |-> None]

\* FrequencyPredicate::update_min
update_min(fp, new_min) ==
  IF fp.min_occurrences = None
    THEN [fp EXCEPT !.min_occurrences = Some(new_min)]
    ELSE [fp EXCEPT !.min_occurrences = Some(Max2(fp.min_occurrences[1], new_min))]

\* Variant of update_max that matches on self.max_occurrences: the new maximum
\* is the smaller of the previous maximum and new_max.
update_max_of_previous_max(fp, new_max) ==
  IF fp.max_occurrences = None
    THEN [fp EXCEPT !.max_occurrences = Some(new_max)]
    ELSE [fp EXCEPT !.max_occurrences = Some(Min2(fp.max_occurrences[1], new_max))]

\* FrequencyPredicate::update_max.  The source matches on self.min_occurrences
\* (binding it to the name prev_max), not on self.max_occurrences: the new
\* maximum is new_max when no minimum is set, and otherwise the smaller of the
\* current MINIMUM and new_max.  The previous maximum is never read.
update_max(fp, new_max) ==
  IF fp.min_occurrences = None
    THEN [fp EXCEPT !.max_occurrences = Some(new_max)]
    ELSE [fp EXCEPT !.max_occurrences = Some(Min2(fp.min_occurrences[1], new_max))]

\* Variant of is_noop with `||` in place of `&&`.
is_noop_either(fp) == fp.min_occurrences = None \/ fp.max_occurrences = None

\* FrequencyPredicate::is_noop
is_noop(fp) == fp.min_occurrences = None /\ fp.max_occurrences = None

\* FrequencyPredicate::matches
matches(fp, num_occurrences) ==
  IF fp.min_occurrences # None /\ num_occurrences < fp.min_occurrences[1] THEN FALSE
  ELSE IF fp.max_occurrences # None /\ num_occurrences > fp.max_occurrences[1] THEN FALSE
  ELSE TRUE

\* ------------------------------------------------------------------------
\* GameState::_update_state (lib.rs 151-199)
\* ------------------------------------------------------------------------
\* The constraint part of a GameState, as the update loop threads it:
\* possible_letters, letter_frequencies, and whether a panic was raised.

\* info_by_letter[letter]: the (position, classification) pairs of one letter
\* of the outcome, in position order (lib.rs 152-159).  Positions count from 1.
RECURSIVE InfoOfLetter(_, _, _)
InfoOfLetter(outcome, letter, i) ==
  IF i > Len(outcome) THEN <<>>
  ELSE IF outcome[i][1] = letter
    THEN <<(<<i, outcome[i][2]>>)>> \o InfoOfLetter(outcome, letter, i + 1)
    ELSE InfoOfLetter(outcome, letter, i + 1)

\* The distinct letters of the outcome, in order of first occurrence.
RECURSIVE DistinctLetters(_, _)
DistinctLetters(outcome, i) ==
  IF i > Len(outcome) THEN <<>>
  ELSE IF \E j \in 1..(i - 1) : outcome[j][1] = outcome[i][1]
    THEN DistinctLetters(outcome, i + 1)
    ELSE <<outcome[i][1]>> \o DistinctLetters(outcome, i + 1)

\* Variant of the inner loop without the assertion of line 169: a Correct mark
\* replaces the set of its position whether or not it holds the letter.
RECURSIVE LetterLoopWithoutAssert(_, _, _, _, _, _)
LetterLoopWithoutAssert(gs, letter, occs, k, has_absent, non_absent_count) ==
  IF k > Len(occs) \/ gs.panic THEN gs
  ELSE
    LET i == occs[k][1]
        o == occs[k][2]
        pl == IF o = Correct
                THEN [gs.possible_letters EXCEPT ![i] = {letter}]
                ELSE [gs.possible_letters EXCEPT ![i] = @ \ {letter}]
        ha == has_absent \/ o = Absent
        nac == IF o = Absent THEN non_absent_count ELSE non_absent_count + 1
        fp0 == gs.letter_frequencies[letter]
        fp1 == IF nac > 0 THEN update_min(fp0, nac) ELSE fp0
        fp2 == IF ha THEN update_max(fp1, nac) ELSE fp1
    IN IF i > WORD_LENGTH \/ ((nac > 0 \/ ha) /\ letter \notin LetterSet)
         THEN [gs EXCEPT !.panic = TRUE]
         ELSE LetterLoopWithoutAssert(
                [possible_letters |-> pl,
                 letter_frequencies |-> [gs.letter_frequencies EXCEPT ![letter] = fp2],
                 panic |-> FALSE],
                letter, occs, k + 1, ha, nac)

\* The inner loop (lib.rs 163-197) for one letter, from its k-th occurrence
\* on.  A Correct mark at a position whose set lacks the letter fails the
\* assertion of line 169; a position outside the possible_letters array or a
\* letter outside the letter_frequencies map fails the indexing / unwrap.
RECURSIVE LetterLoop(_, _, _, _, _, _)
LetterLoop(gs, letter, occs, k, has_absent, non_absent_count) ==
  IF k > Len(occs) \/ gs.panic THEN gs
  ELSE
    LET i == occs[k][1]
        o == occs[k][2]
        fails == \/ i > WORD_LENGTH
                 \/ o = Correct /\ letter \notin gs.possible_letters[i]
        pl == IF o = Correct
                THEN [gs.possible_letters EXCEPT ![i] = {letter}]
                ELSE [gs.possible_letters EXCEPT ![i] = @ \ {letter}]
        ha == has_absent \/ o = Absent
        nac == IF o = Absent THEN non_absent_count ELSE non_absent_count + 1
        touched == nac > 0 \/ ha
        fp0 == gs.letter_frequencies[letter]
        fp1 == IF nac > 0 THEN update_min(fp0, nac) ELSE fp0
        fp2 == IF ha THEN update_max(fp1, nac) ELSE fp1
    IN IF fails \/ (touched /\ letter \notin LetterSet)
         THEN [gs EXCEPT !.panic = TRUE]
         ELSE LetterLoop([possible_letters |-> pl,
                          letter_frequencies |-> [gs.letter_frequencies EXCEPT ![letter] = fp2],
                          panic |-> FALSE],
                         letter, occs, k + 1, ha, nac)

\* The outer loop (lib.rs 162-198) over the letters of info_by_letter.  The
\* source iterates a HashMap, in no fixed order; a letter's iteration reads
\* and writes only that letter's predicate and the sets of that letter's own
\* positions, so the iterations commute and the model takes the letters in
\* order of first occurrence.  A panic leaves gs as it was at the panic.
RECURSIVE LettersLoop(_, _, _, _)
LettersLoop(gs, outcome, letters, n) ==
  IF n > Len(letters) \/ gs.panic THEN gs
  ELSE LettersLoop(LetterLoop(gs, letters[n], InfoOfLetter(outcome, letters[n], 1), 1, FALSE, 0),
                   outcome, letters, n + 1)

\* _update_state on the constraint record gs.
_update_state(gs, outcome) ==
  LettersLoop(gs, outcome, DistinctLetters(outcome, 1), 1)

\* ------------------------------------------------------------------------
\* GameState::_word_fits and _update_potential_solutions (lib.rs 201-229)
\* ------------------------------------------------------------------------
\* First loop of _word_fits: every letter is allowed at its position.
PositionsFit(possible_letters, word) ==
  \A i \in 1..Len(word) : word[i] \in possible_letters[i]

\* Second loop of _word_fits: every predicate that is not a no-op matches the
\* word's count of its letter (0 when the word lacks the letter).
FrequenciesFit(letter_frequencies, word) ==
  \A l \in DOMAIN letter_frequencies :
    is_noop(letter_frequencies[l]) \/ matches(letter_frequencies[l], CountLetter(word, l))

\* Variant of _word_fits without the first loop: only the counts decide.
_word_fits_counts_only(possible_letters, letter_frequencies, word) ==
  FrequenciesFit(letter_frequencies, word)

_word_fits(possible_letters, letter_frequencies, word) ==
  PositionsFit(possible_letters, word) /\ FrequenciesFit(letter_frequencies, word)

\* Vec::retain: the words of list that fit, in their order.
RECURSIVE Retain(_, _, _)
Retain(list, possible_letters, letter_frequencies) ==
  IF list = <<>> THEN <<>>
  ELSE (IF _word_fits(possible_letters, letter_frequencies, Head(list))
          THEN <<Head(list)>> ELSE <<>>)
       \o Retain(Tail(list), possible_letters, letter_frequencies)

\* _update_potential_solutions: the current candidate list, filtered.
_update_potential_solutions(candidates, possible_letters, letter_frequencies) ==
  Retain(candidates, possible_letters, letter_frequencies)

\* ------------------------------------------------------------------------
\* f32 arithmetic of calculate_information_gain
\* ------------------------------------------------------------------------
\* An f32 of the gain computation is held as an integer count of units of
\* 2^-26.  With at most 8 candidates every value the computation produces is
\* 0 or lies in [1/8, 8], where an f32 (24 significant bits) is a multiple of
\* 2^-26 and the unit counts stay below 2^31.
F32Unit == 2 ^ 26

F32Significand == 2 ^ 24

\* The spacing, in units, of the f32 values around a value of v units: the
\* least power of two u with v / u below 2^24.
RECURSIVE UlpOf(_, _)
UlpOf(v, u) == IF v \div u < F32Significand THEN u ELSE UlpOf(v, 2 * u)

\* num / den units rounded to the nearest multiple of u, ties to the even
\* multiple (IEEE 754 round-to-nearest-even, the mode of Rust's f32 operators).
RoundToUlp(num, den, u) ==
  LET q == num \div (den * u)
      r == num - q * den * u
      up == 2 * r > den * u \/ (2 * r = den * u /\ q % 2 = 1)
  IN (IF up THEN q + 1 ELSE q) * u

\* (a as f32) / (b as f32) for small positive integers a <= b.
F32Div(a, b) == RoundToUlp(a * F32Unit, b, UlpOf((a * F32Unit) \div b, 1))

\* (k as f32) * x for a small integer k and an f32 x.
F32Mul(k, x) == RoundToUlp(k * x, 1, UlpOf(k * x, 1))

\* x + y for two f32 values.
F32Add(x, y) == RoundToUlp(x + y, 1, UlpOf(x + y, 1))

\* ------------------------------------------------------------------------
\* GameState::calculate_information_gain (lib.rs 114-132)
\* ------------------------------------------------------------------------
\* The keys of the `outcomes` map: the classification signatures that word
\* produces against the potential solutions.
Signatures(word, potential_solutions) ==
  {letter_outcomes(evaluate_guess(word, potential_solutions[i])) : i \in 1..Len(potential_solutions)}

\* The value of the `outcomes` map at a key: how many potential solutions
\* produce that signature.
GroupSize(word, potential_solutions, sig) ==
  Cardinality({i \in 1..Len(potential_solutions) :
                 letter_outcomes(evaluate_guess(word, potential_solutions[i])) = sig})

\* The closure of the map: ((total - n) as f32) * ((n as f32) / (total as f32)).
GainTerm(n, total) == F32Mul(total - n, F32Div(n, total))

\* Iterator::sum over outcomes.values(): the terms are added one by one to
\* 0.0 in the iteration order of the HashMap, which is not fixed (the map is
\* seeded per instance), so every order of the groups is a possible run.
\* The result is the set of sums those orders can produce.
RECURSIVE SumOrders(_, _, _)
SumOrders(groups, term, acc) ==
  IF groups = {} THEN {acc}
  ELSE UNION {SumOrders(groups \ {g}, term, F32Add(acc, term[g])) : g \in groups}

\* The values calculate_information_gain can return for word.
calculate_information_gain(word, potential_solutions) ==
  LET total == Len(potential_solutions)
      groups == Signatures(word, potential_solutions)
      term == [g \in groups |-> GainTerm(GroupSize(word, potential_solutions, g), total)]
  IN SumOrders(groups, term, 0)

\* ------------------------------------------------------------------------
\* GameState::calculate_best_guess (lib.rs 85-112)
\* ------------------------------------------------------------------------
\* The scoring loop (lib.rs 95-109) from dictionary index k on: the set of
\* final values of best_word, one for every choice of the gains.
RECURSIVE ScoringLoop(_, _, _, _, _)
ScoringLoop(dict, candidates, k, best_word, max_gain) ==
  IF k > Len(dict) THEN {best_word}
  ELSE UNION {
    LET new_best == max_gain = None \/ gain > max_gain[1]
    IN ScoringLoop(dict, candidates, k + 1,
                   IF new_best THEN Some(dict[k]) ELSE best_word,
                   IF new_best THEN Some(gain) ELSE max_gain)
    : gain \in calculate_information_gain(dict[k], candidates)}

\* Variant of calculate_best_guess without the opening shortcut.
calculate_best_guess_no_opening(dict, candidates, initial) ==
  IF Len(candidates) = 1 THEN {[path |-> "single", word |-> Some(candidates[1])]}
  ELSE {[path |-> "scored", word |-> w] : w \in ScoringLoop(dict, candidates, 1, None, None)}

\* Variant of calculate_best_guess without the single-candidate shortcut.
calculate_best_guess_no_single(dict, candidates, initial) ==
  IF initial THEN {[path |-> "opening", word |-> Some(BEST_FIRST_GUESS)]}
  ELSE {[path |-> "scored", word |-> w] : w \in ScoringLoop(dict, candidates, 1, None, None)}

\* The possible results of calculate_best_guess, each with the path that
\* produced it; word = None stands for the panic of best_word.unwrap().
calculate_best_guess(dict, candidates, initial) ==
  IF initial THEN {[path |-> "opening", word |-> Some(BEST_FIRST_GUESS)]}
  ELSE IF Len(candidates) = 1 THEN {[path |-> "single", word |-> Some(candidates[1])]}
  ELSE {[path |-> "scored", word |-> w] : w \in ScoringLoop(dict, candidates, 1, None, None)}

\* ------------------------------------------------------------------------
\* GameState::summary (lib.rs 139-149)
\* ------------------------------------------------------------------------
\* GameState::_possible_solutions_summary
_possible_solutions_summary == "FIXME"

\* Variant of summary that leaves the number of candidates out.
summary_without_count(candidates) ==
  "possible solutions: [" \o _possible_solutions_summary \o "]"

\* GameState::summary: format!("{} possible solutions: [{}]", len, summary).
summary(candidates) ==
  ToString(Len(candidates)) \o " possible solutions: [" \o _possible_solutions_summary \o "]"

\* ------------------------------------------------------------------------
\* The oracle's line: LetterOutcome::parse, GuessOutcome::parse and
\* prompt_guess (lib.rs 240-247, 256-263, 344-376)
\* ------------------------------------------------------------------------
\* LetterOutcome::parse; "panic" stands for the panic of the last arm.
LetterOutcomeParse(outcome_char) ==
  CASE outcome_char = "G" -> Correct
    [] outcome_char = "Y" -> Present
    [] outcome_char = "B" -> Absent
    [] OTHER -> "panic"

\* GuessOutcome::parse: the letters of the word zipped with the parsed
\* characters of the outcome string; zip stops at the shorter of the two.
GuessOutcomeParse(word, outcome_str) ==
  [i \in 1..Min2(Len(word), Len(outcome_str)) |->
     <<word[i], LetterOutcomeParse(outcome_str[i])>>]

\* char::is_whitespace on the characters of the input lines: the blank and
\* the line feed read_line leaves at the end of the line.
IsWhitespace(c) == c \in {" ", "\n"}

RECURSIVE TrimStart(_)
TrimStart(line) ==
  IF line # <<>> /\ IsWhitespace(Head(line)) THEN TrimStart(Tail(line)) ELSE line

RECURSIVE TrimEnd(_)
TrimEnd(line) ==
  IF line # <<>> /\ IsWhitespace(line[Len(line)])
    THEN TrimEnd(SubSeq(line, 1, Len(line) - 1))
    ELSE line

\* str::trim: leading and trailing whitespace removed.
trim(line) == TrimEnd(TrimStart(line))

\* prompt_guess from read_line on: the trimmed line is parsed against the
\* suggested guess when all of its characters are B, Y or G; any other line
\* panics.
prompt_guess(word, line) ==
  LET outcome_str == trim(line)
  IN IF \A i \in 1..Len(outcome_str) : outcome_str[i] \in {"B", "Y", "G"}
       THEN [panic |-> FALSE, outcome |-> GuessOutcomeParse(word, outcome_str)]
       ELSE [panic |-> TRUE, outcome |-> <<>>]

\* ------------------------------------------------------------------------
\* State
\* ------------------------------------------------------------------------
VARIABLES
  dictionary,          \* GameState.dictionary
  possible_solutions,  \* GameState.possible_solutions
  is_initial_state,    \* GameState.is_initial_state
  letter_frequencies,  \* GameState.letter_frequencies: letter -> FrequencyPredicate
  possible_letters,    \* GameState.possible_letters: position -> set of letters
  solutions,           \* the solutions list GameState::new was given
  status,              \* "ok", or which call has panicked
  num_updates,         \* number of update calls made
  guess,               \* the word of the last calculate_best_guess / evaluate_guess
  path,                \* how the last calculate_best_guess produced its result
  solution_word,       \* the solution evaluate_guess is run against
  outcome,             \* the last GuessOutcome evaluated or passed to update
  won,                 \* the result of the last is_win
  pc,                  \* position of the evaluator, prompt or simulation run
  input,               \* the line the oracle enters at prompt_guess
  summary_out,         \* the String of the last summary call
  result               \* the Option<u8> simulate_game returns

vars ==
  <<dictionary, possible_solutions, is_initial_state, letter_frequencies,
    possible_letters, solutions, status, num_updates, guess, path,
    solution_word, outcome, won, pc, input, summary_out, result>>

io_vars == <<input, summary_out, result>>

game_vars ==
  <<dictionary, possible_solutions, is_initial_state, letter_frequencies,
    possible_letters, solutions, status, num_updates>>

\* ------------------------------------------------------------------------
\* GameState::new (lib.rs 75-83)
\* ------------------------------------------------------------------------
NewGame(dict, sols) ==
  /\ dictionary = dict
  /\ possible_solutions = sols
  /\ solutions = sols
  /\ is_initial_state = TRUE
  /\ letter_frequencies = [l \in LetterSet |-> NewFrequencyPredicate]
  /\ possible_letters = [i \in 1..WORD_LENGTH |-> LetterSet]
  /\ status = "ok"
  /\ num_updates = 0

\* ------------------------------------------------------------------------
\* Specification of the evaluator: evaluate_guess and is_win on every pair
\* of words of EvalWords
\* ------------------------------------------------------------------------
InitEval ==
  /\ NewGame(<<>>, <<>>)
  /\ guess \in EvalWords
  /\ solution_word \in EvalWords
  /\ outcome = <<>>
  /\ won = FALSE
  /\ path = "none"
  /\ pc = "start"
  /\ input = <<>>
  /\ summary_out = ""
  /\ result = None

\* let outcome = evaluate_guess(guess, solution_word)
EvaluateGuess ==
  /\ pc = "start"
  /\ outcome' = evaluate_guess(guess, solution_word)
  /\ pc' = "evaluated"
  /\ UNCHANGED <<game_vars, guess, path, solution_word, won, io_vars>>

\* outcome.is_win()
IsWin ==
  /\ pc \in {"evaluated", "prompted"}
  /\ won' = is_win(outcome)
  /\ pc' = "done"
  /\ UNCHANGED <<game_vars, guess, path, solution_word, outcome, io_vars>>

NextEval == EvaluateGuess \/ IsWin

SpecEval == InitEval /\ [][NextEval]_vars

\* ------------------------------------------------------------------------
\* Specification of the game state: a GameState built by GameState::new and
\* driven by any interleaving of update and calculate_best_guess calls
\* ------------------------------------------------------------------------
FULLY == <<"F", "U", "L", "L", "Y">>
WINDY == <<"W", "I", "N", "D", "Y">>
SHILL == <<"S", "H", "I", "L", "L">>
CHILL == <<"C", "H", "I", "L", "L">>
SPILL == <<"S", "P", "I", "L", "L">>
DUCKY == <<"D", "U", "C", "K", "Y">>
SULKY == <<"S", "U", "L", "K", "Y">>
TABLE == <<"T", "A", "B", "L", "E">>

\* The (dictionary, solutions) pairs a game is constructed from: the sample
\* game; a game whose dictionary lacks the opening word and holds two words
\* that split the five solutions alike; a game with a single solution; a
\* game with an empty dictionary.
Games ==
  { [dictionary |-> <<ROATE, ABATE, BEATS>>, solutions |-> <<ABATE, BEATS>>],
    [dictionary |-> <<FULLY, WINDY>>, solutions |-> <<SHILL, CHILL, SPILL, DUCKY, SULKY>>],
    [dictionary |-> <<BEATS, TABLE, ABATE>>, solutions |-> <<TABLE>>],
    [dictionary |-> <<>>, solutions |-> <<TABLE, ABATE, BEATS>>] }

Range(seq) == {seq[i] : i \in 1..Len(seq)}

\* The outcomes passed to update: every classification of the letters of
\* ABATE (a guess that repeats a letter), and the outcome of every dictionary
\* word and of the opening word against every word of the solutions list.
FreeOutcomes ==
  {[i \in 1..WORD_LENGTH |-> <<ABATE[i], p[i]>>] : p \in [1..WORD_LENGTH -> LetterOutcome]}

TruthfulOutcomes ==
  {evaluate_guess(g, s) : g \in Range(dictionary) \cup {BEST_FIRST_GUESS}, s \in Range(solutions)}

Init ==
  /\ \E game \in Games : NewGame(game.dictionary, game.solutions)
  /\ guess = <<>>
  /\ path = "none"
  /\ solution_word = <<>>
  /\ outcome = <<>>
  /\ won = FALSE
  /\ pc = "game"
  /\ input = <<>>
  /\ summary_out = ""
  /\ result = None

\* The constraint record _update_state works on.
Constraints ==
  [possible_letters |-> possible_letters,
   letter_frequencies |-> letter_frequencies,
   panic |-> FALSE]

\* Variant of the candidate refresh that filters the original solutions list
\* in place of the current candidate list.
NewPossibleSolutionsFromOriginal(gs) ==
  _update_potential_solutions(solutions, gs.possible_letters, gs.letter_frequencies)

\* The list _update_potential_solutions leaves in self.possible_solutions
\* once _update_state has produced the constraints gs.
NewPossibleSolutions(gs) ==
  _update_potential_solutions(possible_solutions, gs.possible_letters, gs.letter_frequencies)

\* GameState::update (lib.rs 134-137): _update_state, then
\* _update_potential_solutions.  A panic inside _update_state ends the call
\* before the candidate list is filtered.
update(o) ==
  LET gs == _update_state(Constraints, o)
  IN /\ is_initial_state' = FALSE
     /\ possible_letters' = gs.possible_letters
     /\ letter_frequencies' = gs.letter_frequencies
     /\ IF gs.panic
          THEN status' = "update panicked" /\ UNCHANGED possible_solutions
          ELSE status' = status /\ possible_solutions' = NewPossibleSolutions(gs)

\* game_state.update(outcome), for any outcome of the input set, and the
\* game_state.summary() play_wordle prints once update has returned.
Update ==
  /\ pc = "game"
  /\ status = "ok"
  /\ num_updates < MaxUpdates
  /\ \E o \in FreeOutcomes \cup TruthfulOutcomes :
       /\ update(o)
       /\ outcome' = o
  /\ summary_out' = IF status' = "ok" THEN summary(possible_solutions') ELSE summary_out
  /\ num_updates' = num_updates + 1
  /\ guess' = <<>>
  /\ path' = "none"
  /\ UNCHANGED <<dictionary, solutions, solution_word, won, pc, input, result>>

\* game_state.calculate_best_guess(): the state is only read; the result and
\* the path that produced it are recorded, a failed unwrap panics.
CalculateBestGuess ==
  /\ pc = "game"
  /\ status = "ok"
  /\ \E r \in calculate_best_guess(dictionary, possible_solutions, is_initial_state) :
       /\ path' = r.path
       /\ IF r.word = None
            THEN guess' = <<>> /\ status' = "calculate_best_guess panicked"
            ELSE guess' = r.word[1] /\ status' = status
  /\ UNCHANGED <<dictionary, possible_solutions, is_initial_state, letter_frequencies,
                 possible_letters, solutions, num_updates, solution_word, outcome, won, pc,
                 io_vars>>

Next == Update \/ CalculateBestGuess

Spec == Init /\ [][Next]_vars

\* ------------------------------------------------------------------------
\* Specification of the prompt: prompt_guess on every line of Lines, followed
\* by the is_win test of play_wordle
\* ------------------------------------------------------------------------
MaxLineLen == 6

\* The characters of a line: the three outcome characters, a character that
\* is none of them, and a blank.
LineChars == {"B", "Y", "G", "X", " "}

Lines == UNION {[1..n -> LineChars] : n \in 0..MaxLineLen}

InitPrompt ==
  /\ NewGame(<<>>, <<>>)
  /\ guess \in {BEST_FIRST_GUESS, ABATE}
  /\ input \in Lines
  /\ solution_word = <<>>
  /\ outcome = <<>>
  /\ won = FALSE
  /\ path = "none"
  /\ pc = "prompt"
  /\ summary_out = ""
  /\ result = None

\* let outcome = prompt_guess(suggested_guess)
PromptGuess ==
  /\ pc = "prompt"
  /\ LET r == prompt_guess(guess, input)
     IN IF r.panic
          THEN status' = "prompt_guess panicked" /\ pc' = "panicked" /\ UNCHANGED outcome
          ELSE status' = status /\ pc' = "prompted" /\ outcome' = r.outcome
  /\ UNCHANGED <<dictionary, possible_solutions, is_initial_state, letter_frequencies,
                 possible_letters, solutions, num_updates, guess, path, solution_word,
                 won, io_vars>>

NextPrompt == PromptGuess \/ IsWin

SpecPrompt == InitPrompt /\ [][NextPrompt]_vars

\* ------------------------------------------------------------------------
\* Specification of truthful feedback: a GameState and a solution word of its
\* solutions list; every update is given the outcome evaluate_guess computes
\* for some guess against that word
\* ------------------------------------------------------------------------
\* The guesses: every word over two letters (words that repeat a letter in
\* every arrangement), the opening word and the words of the game.
TruthfulGuesses ==
  [1..WORD_LENGTH -> {"A", "L"}] \cup {BEST_FIRST_GUESS}
    \cup Range(dictionary) \cup Range(solutions)

InitTruthful ==
  /\ \E game \in Games :
       /\ NewGame(game.dictionary, game.solutions)
       /\ solution_word \in Range(game.solutions)
  /\ guess = <<>>
  /\ path = "none"
  /\ outcome = <<>>
  /\ won = FALSE
  /\ pc = "truthful"
  /\ input = <<>>
  /\ summary_out = ""
  /\ result = None

\* let outcome = evaluate_guess(guess, solution_word); state.update(outcome)
TruthfulUpdate ==
  /\ pc = "truthful"
  /\ status = "ok"
  /\ num_updates < MaxUpdates
  /\ \E g \in TruthfulGuesses :
       LET o == evaluate_guess(g, solution_word)
       IN /\ guess' = g
          /\ outcome' = o
          /\ update(o)
  /\ num_updates' = num_updates + 1
  /\ UNCHANGED <<dictionary, solutions, path, solution_word, won, pc, io_vars>>

NextTruthful == TruthfulUpdate

SpecTruthful == InitTruthful /\ [][NextTruthful]_vars

\* ------------------------------------------------------------------------
\* Specification of tests::simulate_game (lib.rs 382-402): the solver plays
\* its own best guess against a solution word; the loop runs up to MaxGuesses
\* turns in place of NUM_GUESSES
\* ------------------------------------------------------------------------
MaxGuesses == 7

FIGHT == <<"F", "I", "G", "H", "T">>
LIGHT == <<"L", "I", "G", "H", "T">>
MIGHT == <<"M", "I", "G", "H", "T">>
NIGHT == <<"N", "I", "G", "H", "T">>
SIGHT == <<"S", "I", "G", "H", "T">>

\* The games simulated: those of Games, a game whose five solutions differ in
\* their first letter only, and a game whose dictionary holds its solutions
\* and two more words.
SimulatedGames ==
  Games \cup
  { [dictionary |-> <<FIGHT, LIGHT, MIGHT, NIGHT, SIGHT>>,
     solutions |-> <<FIGHT, LIGHT, MIGHT, NIGHT, SIGHT>>],
    [dictionary |-> <<FULLY, WINDY, SHILL, CHILL, SPILL, DUCKY, SULKY>>,
     solutions |-> <<SHILL, CHILL, SPILL, DUCKY, SULKY>>] }

InitSim ==
  /\ \E game \in SimulatedGames :
       /\ NewGame(game.dictionary, game.solutions)
       /\ solution_word \in Range(game.solutions)
  /\ guess = <<>>
  /\ path = "none"
  /\ outcome = <<>>
  /\ won = FALSE
  /\ pc = "sim_guess"
  /\ input = <<>>
  /\ summary_out = ""
  /\ result = None

\* let guess = state.calculate_best_guess()
SimGuess ==
  /\ pc = "sim_guess"
  /\ \E r \in calculate_best_guess(dictionary, possible_solutions, is_initial_state) :
       /\ path' = r.path
       /\ IF r.word = None
            THEN /\ guess' = <<>>
                 /\ status' = "calculate_best_guess panicked"
                 /\ pc' = "panicked"
            ELSE /\ guess' = r.word[1]
                 /\ status' = status
                 /\ pc' = "sim_evaluate"
  /\ UNCHANGED <<dictionary, possible_solutions, is_initial_state, letter_frequencies,
                 possible_letters, solutions, num_updates, solution_word, outcome, won,
                 io_vars>>

\* let outcome = evaluate_guess(guess, solution_word)
SimEvaluate ==
  /\ pc = "sim_evaluate"
  /\ outcome' = evaluate_guess(guess, solution_word)
  /\ pc' = "sim_is_win"
  /\ UNCHANGED <<game_vars, guess, path, solution_word, won, io_vars>>

\* if outcome.is_win() { return Some(guess_num); }  guess_num is one more than
\* the number of updates made.
SimIsWin ==
  /\ pc = "sim_is_win"
  /\ won' = is_win(outcome)
  /\ IF is_win(outcome)
       THEN result' = Some(num_updates + 1) /\ pc' = "returned"
       ELSE result' = result /\ pc' = "sim_update"
  /\ UNCHANGED <<game_vars, guess, path, solution_word, outcome, input, summary_out>>

\* state.update(outcome), then the next turn, or None once the turns are
\* used up.
SimUpdate ==
  /\ pc = "sim_update"
  /\ update(outcome)
  /\ num_updates' = num_updates + 1
  /\ pc' = IF status' # "ok" THEN "panicked"
           ELSE IF num_updates + 1 < MaxGuesses THEN "sim_guess"
           ELSE "returned"
  /\ UNCHANGED <<dictionary, solutions, guess, path, solution_word, outcome, won, io_vars>>

NextSim == SimGuess \/ SimEvaluate \/ SimIsWin \/ SimUpdate

SpecSim == InitSim /\ [][NextSim]_vars

\* A step of a simulate_game call that has not returned: its position moves.
\* Every action of NextSim moves the position, and one of them is enabled at
\* every position of the loop.
SimStep ==
  /\ pc \in {"sim_guess", "sim_evaluate", "sim_is_win", "sim_update"}
  /\ pc' \in {"sim_guess", "sim_evaluate", "sim_is_win", "sim_update", "returned", "panicked"}
  /\ pc' # pc

\* simulate_game is sequential code: a call that has a next step takes it.
SpecSimFair == SpecSim /\ WF_pc(SimStep)

\* ------------------------------------------------------------------------
\* Properties of the evaluator (checked under SpecEval)
\* ------------------------------------------------------------------------
Evaluated == pc \in {"evaluated", "done"}

\* Positions of letter l in word w.
PositionsOf(w, l) == {i \in 1..Len(w) : w[i] = l}

\* Positions of the outcome that carry letter l and are Correct or Present.
MarkedPositions(l) ==
  {i \in 1..Len(outcome) : outcome[i][1] = l /\ outcome[i][2] \in {Correct, Present}}

\* C1 -- Evaluator duplicate-letter law.  Once evaluate_guess has run on a
\* guess and a solution of WORD_LENGTH letters: the outcome has one entry per
\* guess letter; every position where guess and solution agree is Correct;
\* for every letter with k copies in the guess and m < k copies in the
\* solution exactly m of its guess positions are Correct or Present and the
\* other k - m are Absent; and among the positions of a letter that are not
\* Correct, a Present mark is never to the right of an Absent one.
DuplicateLetterLaw ==
  Evaluated =>
    /\ Len(outcome) = WORD_LENGTH
    /\ \A i \in 1..WORD_LENGTH : outcome[i][1] = guess[i]
    /\ \A i \in 1..WORD_LENGTH : guess[i] = solution_word[i] => outcome[i][2] = Correct
    /\ \A l \in {guess[i] : i \in 1..WORD_LENGTH} :
         LET k == CountLetter(guess, l)
             m == CountLetter(solution_word, l)
         IN k > m =>
              /\ Cardinality(MarkedPositions(l)) = m
              /\ Cardinality({i \in PositionsOf(guess, l) : outcome[i][2] = Absent}) = k - m
    /\ \A i, j \in 1..WORD_LENGTH :
         (/\ i < j
          /\ guess[i] = guess[j]
          /\ outcome[i][2] # Correct
          /\ outcome[j][2] = Present) => outcome[i][2] = Present

\* A run where a letter occurs more often in the guess than in the solution
\* and its guess positions carry a Correct, a Present and an Absent mark.
DuplicateLetterWitness ==
  /\ Evaluated
  /\ \E l \in {guess[i] : i \in 1..WORD_LENGTH} :
       /\ CountLetter(guess, l) > CountLetter(solution_word, l)
       /\ \E i, j, n \in PositionsOf(guess, l) :
            /\ outcome[i][2] = Correct
            /\ outcome[j][2] = Present
            /\ outcome[n][2] = Absent

\* C2 -- Win detection.  evaluate_guess(w, w) has exactly WORD_LENGTH entries,
\* all Correct, and is_win of it is true; is_win is false of an outcome that
\* has a Present or an Absent entry.
WinDetection ==
  /\ (Evaluated /\ guess = solution_word) =>
       /\ Len(outcome) = WORD_LENGTH
       /\ \A i \in 1..WORD_LENGTH : outcome[i] = <<guess[i], Correct>>
  /\ (pc = "done" /\ guess = solution_word) => won
  /\ (pc = "done" /\ \E i \in 1..Len(outcome) : outcome[i][2] \in {Present, Absent}) => ~won

\* is_win has returned true for a word evaluated against itself.
WinDetectionWitness ==
  pc = "done" /\ guess = solution_word /\ won /\ Len(outcome) = WORD_LENGTH

\* C7 -- End-to-end evaluation, as the code computes it:
\* evaluate_guess("ROATE", "ABATE") is
\* [R:Absent, O:Absent, A:Correct, T:Correct, E:Correct].
EndToEndEvaluation ==
  (Evaluated /\ guess = ROATE /\ solution_word = ABATE) =>
    outcome = << <<"R", Absent>>, <<"O", Absent>>, <<"A", Correct>>,
                 <<"T", Correct>>, <<"E", Correct>> >>

\* C7 as stated: evaluate_guess("ROATE", "ABATE") is
\* [R:Absent, O:Absent, A:Present, T:Present, E:Correct].
EndToEndEvaluationAsStated ==
  (Evaluated /\ guess = ROATE /\ solution_word = ABATE) =>
    outcome = << <<"R", Absent>>, <<"O", Absent>>, <<"A", Present>>,
                 <<"T", Present>>, <<"E", Correct>> >>

\* evaluate_guess has run on ROATE against ABATE.
EndToEndEvaluationWitness ==
  pc = "evaluated" /\ guess = ROATE /\ solution_word = ABATE /\ Len(outcome) = WORD_LENGTH

\* ------------------------------------------------------------------------
\* Properties of the game state (checked under Spec)
\* ------------------------------------------------------------------------
\* a is b with zero or more entries left out, the others in their order.
RECURSIVE IsSubList(_, _)
IsSubList(a, b) ==
  IF a = <<>> THEN TRUE
  ELSE IF b = <<>> THEN FALSE
  ELSE IF Head(a) = Head(b) THEN IsSubList(Tail(a), Tail(b))
  ELSE IsSubList(a, Tail(b))

\* C3 -- Monotonic narrowing.  Every step leaves possible_solutions a
\* sub-list of its previous value, so never longer than before.
MonotonicNarrowing ==
  [][/\ IsSubList(possible_solutions', possible_solutions)
     /\ Len(possible_solutions') <= Len(possible_solutions)]_vars

\* Two updates have completed and narrowed the solutions list to a proper,
\* non-empty part of it.
MonotonicNarrowingWitness ==
  /\ num_updates = 2
  /\ status = "ok"
  /\ possible_solutions # <<>>
  /\ Len(possible_solutions) < Len(solutions)

\* C4 -- Bound tightening never loosens.  For every letter, a step leaves a
\* set min_occurrences set and not smaller, and a set max_occurrences set and
\* not greater.
BoundsNeverLoosen ==
  [][\A l \in LetterSet :
       /\ letter_frequencies[l].min_occurrences # None =>
            /\ letter_frequencies'[l].min_occurrences # None
            /\ letter_frequencies'[l].min_occurrences[1] >= letter_frequencies[l].min_occurrences[1]
       /\ letter_frequencies[l].max_occurrences # None =>
            /\ letter_frequencies'[l].max_occurrences # None
            /\ letter_frequencies'[l].max_occurrences[1] <= letter_frequencies[l].max_occurrences[1]]_vars

\* A calculate_best_guess call has returned in the current state.
Guessed == pc = "game" /\ path # "none" /\ status = "ok"

\* C5 -- Opening shortcut.  The state is initial exactly before the first
\* update; a calculate_best_guess call on an initial state takes the opening
\* path (no scoring pass) and returns "ROATE", whatever the dictionary and
\* the solutions; after an update the state is never initial and no call
\* takes the opening path.
OpeningShortcut ==
  pc = "game" =>
    /\ is_initial_state <=> num_updates = 0
    /\ (path # "none" /\ num_updates = 0) =>
         /\ path = "opening"
         /\ status = "ok"
         /\ guess = <<"R", "O", "A", "T", "E">>
    /\ num_updates > 0 => path # "opening"

\* calculate_best_guess has returned the opening word on a fresh state whose
\* dictionary does not hold it.
OpeningShortcutWitness ==
  /\ Guessed
  /\ is_initial_state
  /\ path = "opening"
  /\ guess = <<"R", "O", "A", "T", "E">>
  /\ \A i \in 1..Len(dictionary) : dictionary[i] # guess

\* C6 -- Single-candidate shortcut, on a state that is not initial: when
\* possible_solutions has exactly one entry, calculate_best_guess returns
\* that entry, by the single-candidate path.
SingleCandidateShortcut ==
  (Guessed /\ ~is_initial_state /\ Len(possible_solutions) = 1) =>
    /\ path = "single"
    /\ guess = possible_solutions[1]

\* C6 as stated: in every reachable state where possible_solutions has
\* exactly one entry, calculate_best_guess returns that entry.
SingleCandidateShortcutAsStated ==
  (Guessed /\ Len(possible_solutions) = 1) => guess = possible_solutions[1]

\* An update has narrowed several solutions to one and calculate_best_guess
\* has returned it.
SingleCandidateShortcutWitness ==
  /\ Guessed
  /\ ~is_initial_state
  /\ Len(solutions) > 1
  /\ Len(possible_solutions) = 1
  /\ guess = possible_solutions[1]

\* The sample game after its first turn: solutions [ABATE, BEATS], a
\* dictionary holding ROATE, ABATE and BEATS, and one update, made with the
\* outcome of ROATE against ABATE.
SampleGameAfterFirstTurn ==
  /\ pc = "game"
  /\ solutions = <<ABATE, BEATS>>
  /\ {ROATE, ABATE, BEATS} \subseteq Range(dictionary)
  /\ num_updates = 1
  /\ outcome = evaluate_guess(ROATE, ABATE)

\* C8 -- End-to-end narrowing.  In the sample game the update with the
\* outcome of ROATE against ABATE completes and leaves possible_solutions =
\* [ABATE]; a calculate_best_guess call then returns ABATE.
EndToEndNarrowing ==
  SampleGameAfterFirstTurn =>
    /\ status = "ok"
    /\ possible_solutions = <<ABATE>>
    /\ path # "none" => guess = ABATE

\* The sample game after its first turn, with ABATE proposed.
EndToEndNarrowingWitness ==
  SampleGameAfterFirstTurn /\ Guessed /\ guess = ABATE /\ possible_solutions = <<ABATE>>

\* The information gain of word over candidates as the exact rational
\* sum of (total - n) * n / total over the signature groups, times total:
\* total^2 minus the sum of the squared group sizes.
ExactGainTimesTotal(word, candidates) ==
  LET groups == Signatures(word, candidates)
      RECURSIVE SumSquares(_)
      SumSquares(gset) ==
        IF gset = {} THEN 0
        ELSE LET g == CHOOSE x \in gset : TRUE
                 n == GroupSize(word, candidates, g)
             IN n * n + SumSquares(gset \ {g})
  IN Len(candidates) * Len(candidates) - SumSquares(groups)

\* The dictionary word of greatest exact gain, the first of them in
\* dictionary order.
FirstOfGreatestGain(dict, candidates) ==
  LET k == CHOOSE i \in 1..Len(dict) :
             /\ \A j \in 1..Len(dict) :
                  ExactGainTimesTotal(dict[j], candidates) <= ExactGainTimesTotal(dict[i], candidates)
             /\ \A j \in 1..(i - 1) :
                  ExactGainTimesTotal(dict[j], candidates) < ExactGainTimesTotal(dict[i], candidates)
  IN dict[k]

\* C9 -- Guess selection, general case.  When the state is not initial and
\* possible_solutions does not have exactly one entry, calculate_best_guess
\* returns the dictionary word of greatest information gain, and of several
\* such words the first in dictionary order.
GreatestGainFirst ==
  (Guessed /\ path = "scored") =>
    /\ ~is_initial_state
    /\ Len(possible_solutions) # 1
    /\ guess = FirstOfGreatestGain(dictionary, possible_solutions)

\* C10 -- Infallible update.  No update call panics.
InfallibleUpdate == status # "update panicked"

\* ------------------------------------------------------------------------
\* Properties of the prompt (checked under SpecPrompt)
\* ------------------------------------------------------------------------
Prompted == pc \in {"prompted", "done", "panicked"}

\* An outcome string as the oracle is to enter it: WORD_LENGTH characters,
\* each of them B, Y or G.
WellFormedOutcomeString(outcome_str) ==
  /\ Len(outcome_str) = WORD_LENGTH
  /\ \A i \in 1..Len(outcome_str) : outcome_str[i] \in {"B", "Y", "G"}

\* The i-th character of a well-formed outcome string as a classification.
ColourOf(c) == IF c = "G" THEN Correct ELSE IF c = "Y" THEN Present ELSE Absent

\* C11 -- Oracle input format.  Once prompt_guess has run on a line: when the
\* entered outcome string has exactly WORD_LENGTH characters, each of B, Y, G,
\* the call returns the outcome that pairs the i-th letter of the guess with
\* the classification of the i-th character (B Absent, Y Present, G Correct);
\* on every other line, the empty one included, the call fails, no outcome
\* is produced and the line is never taken for a win.
OracleInputFormat ==
  Prompted =>
    IF WellFormedOutcomeString(trim(input))
      THEN /\ status = "ok"
           /\ outcome = [i \in 1..WORD_LENGTH |-> <<guess[i], ColourOf(trim(input)[i])>>]
      ELSE /\ status = "prompt_guess panicked"
           /\ outcome = <<>>
           /\ ~won

\* ------------------------------------------------------------------------
\* Properties of the game state under exhausted candidates (checked under Spec)
\* ------------------------------------------------------------------------
Updated == pc = "game" /\ num_updates > 0 /\ status # "update panicked"

\* C12 -- Exhausted candidates.  When a completed update has left no candidate,
\* the summary the state returns reports zero candidates, and a following
\* calculate_best_guess on a non-empty dictionary completes without a panic
\* and returns a dictionary word; when candidates are left the summary does
\* not report zero, so the two conditions differ in what the state returns.
ExhaustedCandidates ==
  Updated =>
    IF possible_solutions = <<>>
      THEN /\ summary_out = "0 possible solutions: [FIXME]"
           /\ dictionary # <<>> =>
                /\ status = "ok"
                /\ path # "none" => guess \in Range(dictionary)
      ELSE summary_out # "0 possible solutions: [FIXME]"

\* An update has emptied the candidate list and calculate_best_guess has then
\* scored the dictionary and returned one of its words.
ExhaustedCandidatesWitness ==
  /\ Updated
  /\ possible_solutions = <<>>
  /\ status = "ok"
  /\ path = "scored"
  /\ guess \in Range(dictionary)

\* ------------------------------------------------------------------------
\* Properties of the game state under truthful feedback (checked under
\* SpecTruthful)
\* ------------------------------------------------------------------------
\* C13 -- Soundness under truthful feedback.  When every outcome passed to
\* update is the one evaluate_guess computes against the solution word, a word
\* of the solutions list, then after every update the solution word is still
\* a candidate, each of its letters is allowed at its position, the bounds of
\* every letter enclose the number of times the solution word holds it, and
\* no update has failed the assertion of the Correct branch.
SoundUnderTruthfulFeedback ==
  pc = "truthful" =>
    /\ status = "ok"
    /\ solution_word \in Range(possible_solutions)
    /\ \A i \in 1..WORD_LENGTH : solution_word[i] \in possible_letters[i]
    /\ \A l \in LetterSet :
         LET fp == letter_frequencies[l]
             count == Cardinality({i \in 1..WORD_LENGTH : solution_word[i] = l})
         IN /\ fp.min_occurrences # None => fp.min_occurrences[1] <= count
            /\ fp.max_occurrences # None => count <= fp.max_occurrences[1]

\* A second truthful update whose guess repeats a letter that the outcome
\* marks Absent at one position and Correct at a later one.
SoundUnderTruthfulFeedbackWitness ==
  /\ pc = "truthful"
  /\ num_updates = 2
  /\ \E i, j \in 1..WORD_LENGTH :
       /\ i < j
       /\ outcome[i][1] = outcome[j][1]
       /\ outcome[i][2] = Absent
       /\ outcome[j][2] = Correct

\* ------------------------------------------------------------------------
\* Properties of update (checked under Spec)
\* ------------------------------------------------------------------------
\* C14 -- Recompute equivalence.  After every completed update the candidate
\* list equals the original solutions list filtered with the current
\* constraints.
RecomputeEquivalence ==
  Updated =>
    possible_solutions = Retain(solutions, possible_letters, letter_frequencies)

\* The positions of the last outcome that carry letter l, and those of them
\* that are not marked Absent.
OccurrencesIn(l) == {i \in 1..Len(outcome) : outcome[i][1] = l}

NonAbsentIn(l) == {i \in OccurrencesIn(l) : outcome[i][2] # Absent}

\* C15 -- Exact-count inference.  After a completed update whose outcome holds
\* a letter with n occurrences that are not Absent and at least one that is,
\* wherever they stand, the letter's maximum is set and at most n, and its
\* minimum is set and at least n when n > 0; after the first update of a
\* state the maximum is n and the minimum is n (unset when n = 0), and every
\* remaining candidate holds the letter exactly n times.
ExactCountInference ==
  Updated =>
    \A l \in LetterSet :
      LET n == Cardinality(NonAbsentIn(l))
          fp == letter_frequencies[l]
      IN NonAbsentIn(l) # OccurrencesIn(l) =>
           /\ fp.max_occurrences # None
           /\ fp.max_occurrences[1] <= n
           /\ n > 0 => fp.min_occurrences # None /\ fp.min_occurrences[1] >= n
           /\ num_updates = 1 =>
                /\ fp.max_occurrences = Some(n)
                /\ fp.min_occurrences = IF n = 0 THEN None ELSE Some(n)
                /\ \A k \in 1..Len(possible_solutions) :
                     Cardinality(PositionsOf(possible_solutions[k], l)) = n

\* A first update whose outcome marks a letter Absent at one position and
\* Present at a later one, and which leaves a candidate.
ExactCountInferenceWitness ==
  /\ Updated
  /\ num_updates = 1
  /\ possible_solutions # <<>>
  /\ \E i, j \in 1..Len(outcome) :
       /\ i < j
       /\ outcome[i][1] = outcome[j][1]
       /\ outcome[i][2] = Absent
       /\ outcome[j][2] = Present

\* An Update step: one more update call has been made.
UpdateStep == num_updates' = num_updates + 1

\* C16 -- The per-position letter sets only shrink.  possible_letters[i]
\* starts as the whole alphabet; after every update that completes each set
\* is a subset of what it was before the update; and while candidates are
\* left no set is empty.
PossibleLettersOnlyShrink ==
  /\ \A i \in 1..WORD_LENGTH : possible_letters[i] = LetterSet
  /\ [][status' # "update panicked" =>
          /\ \A i \in 1..WORD_LENGTH : possible_letters'[i] \subseteq possible_letters[i]
          /\ possible_solutions' # <<>> =>
               \A i \in 1..WORD_LENGTH : possible_letters'[i] # {}]_vars

\* After two completed updates candidates are left, one position is down to
\* a single letter and another has lost some letters but not all.
PossibleLettersOnlyShrinkWitness ==
  /\ Updated
  /\ num_updates = 2
  /\ possible_solutions # <<>>
  /\ \E i, j \in 1..WORD_LENGTH :
       /\ Cardinality(possible_letters[i]) = 1
       /\ Cardinality(possible_letters[j]) \in 2..(Len(LETTERS) - 2)

\* A word is kept by the filter: each of its letters is allowed at its
\* position, and for every letter with a bound set the word's count of the
\* letter respects each bound that is set.
KeptAsStated(pl, lf, w) ==
  /\ \A i \in 1..WORD_LENGTH : w[i] \in pl[i]
  /\ \A l \in LetterSet :
       LET count == Cardinality(PositionsOf(w, l))
       IN /\ lf[l].min_occurrences # None => count >= lf[l].min_occurrences[1]
          /\ lf[l].max_occurrences # None => count <= lf[l].max_occurrences[1]

\* C17 -- Candidate filter.  A completed update keeps exactly the candidates
\* whose letters are all allowed at their positions and whose letter counts
\* respect every bound that is set, in the order they had before the update.
CandidateFilter ==
  [][UpdateStep /\ status' = "ok" =>
       possible_solutions' =
         SelectSeq(possible_solutions,
                   LAMBDA w : KeptAsStated(possible_letters', letter_frequencies', w))]_vars

\* Of the solutions list a completed update has kept one word and dropped
\* two: one that holds a letter where it is not allowed, and one whose
\* letters are all allowed but whose count of a letter misses a minimum.
CandidateFilterWitness ==
  /\ Updated
  /\ possible_solutions # <<>>
  /\ \E w \in Range(solutions) : \E i \in 1..WORD_LENGTH : w[i] \notin possible_letters[i]
  /\ \E w \in Range(solutions) \ Range(possible_solutions) :
       /\ \A i \in 1..WORD_LENGTH : w[i] \in possible_letters[i]
       /\ \E l \in LetterSet :
            /\ letter_frequencies[l].min_occurrences # None
            /\ letter_frequencies[l].max_occurrences = None
            /\ Cardinality(PositionsOf(w, l)) < letter_frequencies[l].min_occurrences[1]

\* C19 -- Defensive assertion.  When update is given an outcome that marks a
\* letter Correct at a position whose set does not hold that letter, the
\* update fails its assertion: it does not replace the set by that letter
\* alone and does not go on to filter the candidates.
DefensiveAssertion ==
  [][\A i \in 1..WORD_LENGTH :
       (/\ UpdateStep
        /\ outcome'[i][2] = Correct
        /\ outcome'[i][1] \notin possible_letters[i])
       => /\ status' = "update panicked"
          /\ possible_letters'[i] # {outcome'[i][1]}
          /\ possible_solutions' = possible_solutions]_vars

\* An update has failed the assertion.
DefensiveAssertionWitness ==
  /\ status = "update panicked"
  /\ \E i \in 1..WORD_LENGTH :
       outcome[i][2] = Correct /\ outcome[i][1] \notin possible_letters[i]

\* ------------------------------------------------------------------------
\* Properties of the simulated game (checked under SpecSimFair)
\* ------------------------------------------------------------------------
\* The solutions are distinct words, all of them in the dictionary.
SolutionsInDictionary ==
  /\ \A i, j \in 1..Len(solutions) : solutions[i] = solutions[j] => i = j
  /\ Range(solutions) \subseteq Range(dictionary)

\* C18 -- Progress under truthful feedback.  With distinct solutions that are
\* all in the dictionary and the solution word among them, every update of a
\* turn after the first (a turn that did not win) leaves strictly fewer
\* candidates, and the game eventually returns a win, after no more than
\* 1 + |solutions| guesses.
ProgressUnderTruthfulFeedback ==
  /\ [][SolutionsInDictionary /\ UpdateStep /\ num_updates >= 1 =>
          Len(possible_solutions') < Len(possible_solutions)]_vars
  /\ SolutionsInDictionary =>
       <>(/\ pc = "returned"
          /\ won
          /\ guess = solution_word
          /\ result # None
          /\ result[1] <= 1 + Len(solutions))

\* A game of five solutions won with the sixth guess: the opening word and
\* four more guesses have each failed, the last four dropping one candidate
\* each.
ProgressUnderTruthfulFeedbackWitness ==
  /\ SolutionsInDictionary
  /\ pc = "returned"
  /\ won
  /\ Len(solutions) = 5
  /\ result = Some(1 + Len(solutions))

=============================================================================
